---- MODULE Spec2Model ----
(***************************************************************************)
(* Real-time fan-out layer of MailHog-Server (bobrnor fork).               *)
(*                                                                         *)
(*   ingestion -> conf.MessageChan -> Distributor (CreateAPI goroutine)    *)
(*     -> apiv1.messageChan, apiv2.messageChan, apiv3.messageChan          *)
(*     -> APIv3 consumer goroutine -> Hub.Broadcast -> connection.send     *)
(*     -> connection.writeLoop -> websocket transport                      *)
(*                                                                         *)
(* The sources of the Hub (package websockets), of APIv1 and APIv2 and of   *)
(* config are not available; the definitions that stand for them follow    *)
(* the written specification of the system.                                *)
(***************************************************************************)
EXTENDS Integers, Sequences, FiniteSets, TLC

\* ------------------------------------------------------------------ bounds
MaxEvents == 2      \* events the ingestion collaborator produces
MaxConns  == 2      \* websocket connections ever accepted
QueueCap  == 1      \* capacity of connection.send
MaxTime   == 126    \* the clock stops here (seconds)
TickStep  == 6      \* seconds in one tick of the clock

\* -------------------------------------------------------------- constants
pongWait   == 60                       \* seconds allowed to read the next pong
pingPeriod == (pongWait * 9) \div 10   \* seconds between pings

Conns     == 1..MaxConns
Pipelines == 1..3                         \* apiv1, apiv2, apiv3

\* ------------------------------------------------------------- data model
\* Values the first X-Fields header can hold: two well-formed JSON documents
\* tagging a namespace, and text that is not JSON.
XFieldValues == {"{\"ms\":\"a\"}", "{\"ms\":\"b\"}", "garbage"}

\* msg.Content.Headers["X-Fields"]: ok says whether the key is in the map,
\* values is the []string stored under it.
HeaderChoices ==
  {[ok |-> FALSE, values |-> <<>>], [ok |-> TRUE, values |-> <<>>]}
    \cup {[ok |-> TRUE, values |-> <<s>>] : s \in XFieldValues}

NoMsg == [id |-> 0, xfields |-> [ok |-> FALSE, values |-> <<>>]]

\* Namespaces the subscribe endpoint is called with ("" = none supplied).
RequestNamespaces == {"", "a", "b"}

VARIABLES
  offer,        \* event the ingestion side is blocked sending on conf.MessageChan
  produced,     \* number of events produced so far
  dpc,          \* Distributor position: "recv", "v1", "v2", "v3"
  dmsg,         \* Distributor's local msg
  taken,        \* history: ids the Distributor took from upstream, in order
  ppc,          \* per pipeline: "recv" (waiting on messageChan) or "bcast"
  pmsg,         \* per pipeline: the msg it is broadcasting
  received,     \* history: per pipeline, ids accepted from the Distributor
  connections,  \* Hub registry
  namespace,    \* connection.namespace
  send,         \* connection.send (buffered channel contents)
  sendClosed,   \* connection.send has been closed
  wsClosed,     \* connection.ws has been closed locally
  peer,         \* "ok" or "gone": the remote end and the network path
  rpc,          \* readLoop position: "none", "reading", "unreg", "close", "done"
  wpc,          \* writeLoop position: "none", "loop", "done"
  written,      \* history: events written to the transport by writeJSON
  owed,         \* history: ids tagged with the connection's namespace that
                \* the Hub put on its queue while it was registered
  crashed,      \* the process died on an unrecovered panic
  wire,         \* history, per connection: frames written to the transport
                \* (closeFrames: close frames so far; afterClose: a frame
                \* followed a close frame; foreign: a frame was written by a
                \* goroutine other than the connection's writeLoop)
  now,          \* the clock, in seconds
  readDeadline, \* the transport's read deadline (0: none set)
  lastActivity  \* history: when the peer was last heard of (or accepted)

vars == <<offer, produced, dpc, dmsg, taken, ppc, pmsg, received, connections,
          namespace, send, sendClosed, wsClosed, peer, rpc, wpc, written, owed,
          crashed, wire, now, readDeadline, lastActivity>>

distVars == <<offer, produced, dpc, dmsg, taken>>
pipeVars == <<ppc, pmsg, received>>
connVars == <<namespace, send, sendClosed, wsClosed, peer, rpc, wpc, written>>
timeVars == <<now, readDeadline, lastActivity>>

Init ==
  /\ offer = NoMsg
  /\ produced = 0
  /\ dpc = "recv"
  /\ dmsg = NoMsg
  /\ taken = <<>>
  /\ ppc = [k \in Pipelines |-> "recv"]
  /\ pmsg = [k \in Pipelines |-> NoMsg]
  /\ received = [k \in Pipelines |-> <<>>]
  /\ connections = {}
  /\ namespace = [c \in Conns |-> ""]
  /\ send = [c \in Conns |-> <<>>]
  /\ sendClosed = [c \in Conns |-> FALSE]
  /\ wsClosed = [c \in Conns |-> FALSE]
  /\ peer = [c \in Conns |-> "ok"]
  /\ rpc = [c \in Conns |-> "none"]
  /\ wpc = [c \in Conns |-> "none"]
  /\ written = [c \in Conns |-> <<>>]
  /\ owed = [c \in Conns |-> {}]
  /\ crashed = FALSE
  /\ wire = [c \in Conns |->
               [closeFrames |-> 0, afterClose |-> FALSE, foreign |-> FALSE]]
  /\ now = 0
  /\ readDeadline = [c \in Conns |-> 0]
  /\ lastActivity = [c \in Conns |-> 0]

\* --------------------------------------------------------- fetchNamespace
\* json.Unmarshal into struct{Microservice string `json:"ms"`}.
Unmarshal(s) ==
  CASE s = "{\"ms\":\"a\"}" -> [err |-> FALSE, ms |-> "a"]
    [] s = "{\"ms\":\"b\"}" -> [err |-> FALSE, ms |-> "b"]
    [] s = "{}"             -> [err |-> FALSE, ms |-> ""]
    [] OTHER                -> [err |-> TRUE,  ms |-> ""]

\* The guard of the early return: !ok && len(xFields) == 0.
FetchEarlyReturn(msg) == ~msg.xfields.ok /\ Len(msg.xfields.values) = 0

\* xFields[0] on an empty slice: index out of range, an unrecovered panic.
FetchPanics(msg) == ~FetchEarlyReturn(msg) /\ Len(msg.xfields.values) = 0

fetchNamespace(msg) ==
  IF FetchEarlyReturn(msg) THEN ""
  ELSE LET r == Unmarshal(msg.xfields.values[1])
       IN  IF r.err THEN "" ELSE r.ms

\* ------------------------------------------------------------ Distributor
\* The ingestion collaborator: conf.MessageChan <- msg, one event at a time.
\* The sender stays blocked (offer # NoMsg) until the Distributor receives.
Produce(h) ==
  /\ ~crashed
  /\ offer = NoMsg
  /\ produced < MaxEvents
  /\ offer' = [id |-> produced + 1, xfields |-> h]
  /\ produced' = produced + 1
  /\ UNCHANGED <<dpc, dmsg, taken, pipeVars, connections, connVars, owed,
                 crashed>>
  /\ UNCHANGED <<wire, timeVars>>

\* The Distributor is at the top of its for/select, able to receive.
DistributorEarly == dpc \in {"recv", "v2"}
DistributorReady == dpc = "recv"

\* case msg := <-conf.MessageChan
DistributorReceive ==
  /\ ~crashed
  /\ DistributorReady
  /\ offer # NoMsg
  /\ dmsg' = offer
  /\ offer' = NoMsg
  /\ taken' = Append(taken, offer.id)
  /\ dpc' = "v1"
  /\ UNCHANGED <<produced, pipeVars, connections, connVars, owed, crashed>>
  /\ UNCHANGED <<wire, timeVars>>

\* Which pipeline the Distributor is sending to at each position.
Stage(pc) == CASE pc = "v1" -> 1 [] pc = "v2" -> 2 [] pc = "v3" -> 3 [] OTHER -> 0

\* The statement that follows each send in the loop body.
NextHandoffSwapped(pc) ==
  CASE pc = "v1" -> "v3" [] pc = "v3" -> "v2" [] OTHER -> "recv"
NextHandoffSkipsV2(pc) ==
  CASE pc = "v1" -> "v3" [] OTHER -> "recv"
NextHandoff(pc) ==
  CASE pc = "v1" -> "v2" [] pc = "v2" -> "v3" [] OTHER -> "recv"

\* messageChan is unbuffered: a send completes only while the pipeline's
\* consumer goroutine is waiting in its receive.
PipelineAlwaysReady(k) == TRUE
PipelineReady(k) == ppc[k] = "recv"

\* apivK.messageChan <- msg, met by the consumer's  msg := <-messageChan.
Handoff(k) ==
  /\ ~crashed
  /\ Stage(dpc) = k
  /\ PipelineReady(k)
  /\ ppc' = [ppc EXCEPT ![k] = "bcast"]
  /\ pmsg' = [pmsg EXCEPT ![k] = dmsg]
  /\ received' = [received EXCEPT ![k] = Append(@, dmsg.id)]
  /\ dpc' = NextHandoff(dpc)
  /\ dmsg' = IF NextHandoff(dpc) = "recv" THEN NoMsg ELSE dmsg
  /\ UNCHANGED <<offer, produced, taken, connections, connVars, owed, crashed>>
  /\ UNCHANGED <<wire, timeVars>>

\* The consumer goroutines of apiv1 and apiv2: broadcast to their own
\* subscribers, then wait for the next message.
PipelineBroadcastOther(k) ==
  /\ ~crashed
  /\ k \in {1, 2}
  /\ ppc[k] = "bcast"
  /\ ppc' = [ppc EXCEPT ![k] = "recv"]
  /\ pmsg' = [pmsg EXCEPT ![k] = NoMsg]
  /\ UNCHANGED <<distVars, received, connections, connVars, owed, crashed>>
  /\ UNCHANGED <<wire, timeVars>>

\* -------------------------------------------------------------------- Hub
\* Enqueue on connection.send without blocking: a full queue drops the event.
HubEnqueueOverwrite(q, m) ==
  IF Len(q) < QueueCap THEN Append(q, m) ELSE Append(Tail(q), m)
HubEnqueue(q, m) == IF Len(q) < QueueCap THEN Append(q, m) ELSE q

\* The event is tagged with the namespace the connection is bound to.
TaggedFor(c, m) == ~FetchPanics(m) /\ fetchNamespace(m) = namespace[c]

\* Hub.Broadcast: the event goes to every registered connection, whatever its
\* namespace.
HubBroadcast(m) ==
  /\ send' = [c \in Conns |->
                IF c \in connections THEN HubEnqueue(send[c], m) ELSE send[c]]
  /\ owed' = [c \in Conns |->
                IF c \in connections /\ TaggedFor(c, m) /\ Len(send[c]) < QueueCap
                  THEN owed[c] \cup {m.id} ELSE owed[c]]

\* The consumer goroutine of apiv3: apiv3.broadcast(msg), then the next receive.
PipelineBroadcastV3 ==
  /\ ~crashed
  /\ ppc[3] = "bcast"
  /\ HubBroadcast(pmsg[3])
  /\ ppc' = [ppc EXCEPT ![3] = "recv"]
  /\ pmsg' = [pmsg EXCEPT ![3] = NoMsg]
  /\ UNCHANGED <<distVars, received, connections, namespace, sendClosed,
                 wsClosed, peer, rpc, wpc, written, crashed>>
  /\ UNCHANGED <<wire, timeVars>>

\* c.ws.SetReadDeadline(time.Now().Add(pongWait)), called when readLoop
\* starts and by the pong handler.
ReadDeadlineUnset(t) == 0
ReadDeadline(t) == t + pongWait

\* Hub.ServeWithNamespace: a new connection bound to ns is registered and its
\* two goroutines are started; readLoop sets the read deadline first.
FreeConn == CHOOSE c \in Conns : rpc[c] = "none" /\ \A d \in Conns : d < c => rpc[d] # "none"

ServeWithNamespace(ns) ==
  /\ \E c \in Conns : rpc[c] = "none"
  /\ LET c == FreeConn IN
       /\ namespace' = [namespace EXCEPT ![c] = ns]
       /\ connections' = connections \cup {c}
       /\ rpc' = [rpc EXCEPT ![c] = "reading"]
       /\ wpc' = [wpc EXCEPT ![c] = "loop"]
       /\ readDeadline' = [readDeadline EXCEPT ![c] = ReadDeadline(now)]
       /\ lastActivity' = [lastActivity EXCEPT ![c] = now]

\* APIv3.websocket: the subscribe endpoint.
NamespaceMissingNever(ns) == FALSE
NamespaceMissing(ns) == Len(ns) = 0

Websocket(ns) ==
  /\ ~crashed
  /\ IF NamespaceMissing(ns)
       THEN UNCHANGED <<connections, namespace, rpc, wpc, readDeadline,
                        lastActivity>>                       \* 400 Bad Request
       ELSE ServeWithNamespace(ns)
  /\ UNCHANGED <<distVars, pipeVars, send, sendClosed, wsClosed, peer, written,
                 owed, crashed, wire, now>>

\* Hub.unregister as a function of the registry reg and of the set closed of
\* connections whose outbound queue is closed: a connection that is present
\* is removed and its queue closed; closing a queue twice would panic.
UnregisterUnguarded(reg, closed, c) ==
  [reg |-> reg \ {c}, closed |-> closed \cup {c}, panic |-> c \in closed]
Unregister(reg, closed, c) ==
  IF c \in reg
    THEN [reg |-> reg \ {c}, closed |-> closed \cup {c}, panic |-> c \in closed]
    ELSE [reg |-> reg, closed |-> closed, panic |-> FALSE]

ClosedQueues == {c \in Conns : sendClosed[c]}

\* Hub.unregister, reached through unregisterChan: removes the connection if
\* present and closes its outbound queue.
HubUnregister(c) ==
  LET r == Unregister(connections, ClosedQueues, c) IN
    /\ connections' = r.reg
    /\ sendClosed' = [d \in Conns |-> d \in r.closed]

\* ------------------------------------------------------------- connection
\* The remote end goes away or stops answering (close, reset, no pong within
\* pongWait, a frame over maxMessageSize): reads and writes start to fail.
PeerFail(c) ==
  /\ ~crashed
  /\ rpc[c] # "none"
  /\ peer[c] = "ok"
  /\ peer' = [peer EXCEPT ![c] = "gone"]
  /\ UNCHANGED <<distVars, pipeVars, connections, namespace, send, sendClosed,
                 wsClosed, rpc, wpc, written, owed, crashed>>
  /\ UNCHANGED <<wire, timeVars>>

\* The read deadline has passed.
Expired(c) == readDeadline[c] # 0 /\ now >= readDeadline[c]

\* c.ws.NextReader() returns an error: the connection was closed locally, the
\* peer is gone, or the read deadline has passed.
ReadFailsOnlyOnPeer(c) == peer[c] = "gone"
ReadFails(c) == wsClosed[c] \/ peer[c] = "gone" \/ Expired(c)

\* readLoop: c.ws.NextReader() returns an error.
ReadLoopFail(c) ==
  /\ ~crashed
  /\ rpc[c] = "reading"
  /\ ReadFails(c)
  /\ rpc' = [rpc EXCEPT ![c] = "unreg"]
  /\ UNCHANGED <<distVars, pipeVars, connections, namespace, send, sendClosed,
                 wsClosed, peer, wpc, written, owed, crashed>>
  /\ UNCHANGED <<wire, timeVars>>

\* The order of the two statements of readLoop's deferred function.
ReadLoopDeferNext(pc) ==
  CASE pc = "unreg" -> "close" [] pc = "close" -> "done" [] OTHER -> pc

\* readLoop's defer, first statement: c.hub.unregisterChan <- c, received by
\* the Hub, which unregisters the connection.
ReadLoopUnregister(c) ==
  /\ ~crashed
  /\ rpc[c] = "unreg"
  /\ HubUnregister(c)
  /\ rpc' = [rpc EXCEPT ![c] = ReadLoopDeferNext("unreg")]
  /\ UNCHANGED <<distVars, pipeVars, namespace, send, wsClosed, peer, wpc,
                 written, owed, crashed>>
  /\ UNCHANGED <<wire, timeVars>>

\* One frame of the given kind ("data", "ping" or "close") written to a
\* transport by goroutine by ("writeLoop", "readLoop" or "hub").
FrameWritten(w, by, kind) ==
  [closeFrames |-> w.closeFrames + (IF kind = "close" THEN 1 ELSE 0),
   afterClose  |-> w.afterClose \/ w.closeFrames > 0,
   foreign     |-> w.foreign \/ by # "writeLoop"]

\* What c.ws.Close() in readLoop's defer puts on the wire: nothing, it closes
\* the network connection without sending a close frame.
ReadLoopCloseSendsFrame(c) ==
  [wire EXCEPT ![c] = FrameWritten(@, "readLoop", "close")]
ReadLoopCloseWire(c) == wire

\* readLoop's defer, second statement: c.ws.Close().
ReadLoopClose(c) ==
  /\ ~crashed
  /\ rpc[c] = "close"
  /\ wsClosed' = [wsClosed EXCEPT ![c] = TRUE]
  /\ rpc' = [rpc EXCEPT ![c] = ReadLoopDeferNext("close")]
  /\ wire' = ReadLoopCloseWire(c)
  /\ UNCHANGED <<distVars, pipeVars, connections, namespace, send, sendClosed,
                 peer, wpc, written, owed, crashed, timeVars>>

\* c.ws.WriteJSON / WriteMessage can fail: always on a closed connection,
\* possibly when the peer is gone.
WriteMustFail(c) == wsClosed[c]
WriteMayFail(c)  == wsClosed[c] \/ peer[c] = "gone"

\* writeLoop's deferred function: ticker.Stop(); c.ws.Close().
WriteLoopDeferKeepsOpen(c) == wsClosed
WriteLoopDeferClosesAll(c) == [d \in Conns |-> TRUE]
WriteLoopDefer(c) == [wsClosed EXCEPT ![c] = TRUE]

\* writeLoop returns: the deferred function runs and the goroutine ends.
WriteLoopReturn(c) ==
  /\ wpc' = [wpc EXCEPT ![c] = "done"]
  /\ wsClosed' = WriteLoopDefer(c)

\* ns != c.namespace
NamespaceMismatchNever(c, msg) == FALSE
NamespaceMismatch(c, msg) == fetchNamespace(msg) # namespace[c]

\* What the loop does after a mismatch: "done" is the return statement.
MismatchSkips == "loop"
MismatchNext == "done"

\* What a receive leaves in the channel's buffer.
DequeuePeek(q) == q
Dequeue(q) == Tail(q)

\* case message, ok := <-c.send  with ok: one event is dequeued, checked and
\* written.
WriteLoopReceive(c) ==
  /\ ~crashed
  /\ wpc[c] = "loop"
  /\ send[c] # <<>>
  /\ LET m == Head(send[c]) IN
       /\ send' = [send EXCEPT ![c] = Dequeue(@)]
       /\ IF FetchPanics(m)
            THEN /\ crashed' = TRUE
                 /\ UNCHANGED <<wpc, wsClosed, written, wire>>
            ELSE /\ crashed' = crashed
                 /\ IF NamespaceMismatch(c, m)
                      THEN /\ IF MismatchNext = "done"
                                THEN WriteLoopReturn(c)
                                ELSE UNCHANGED <<wpc, wsClosed>>
                           /\ UNCHANGED <<written, wire>>
                      ELSE \/ /\ WriteMayFail(c)
                              /\ WriteLoopReturn(c)
                              /\ UNCHANGED <<written, wire>>
                           \/ /\ ~WriteMustFail(c)
                              /\ written' = [written EXCEPT ![c] = Append(@, m)]
                              /\ wire' = [wire EXCEPT ![c] =
                                            FrameWritten(@, "writeLoop", "data")]
                              /\ UNCHANGED <<wpc, wsClosed>>
  /\ UNCHANGED <<distVars, pipeVars, connections, namespace, sendClosed, peer,
                 rpc, owed, timeVars>>

\* A receive on a closed channel yields ok = false only once the buffer is
\* empty.
ClosedSeenWhileBuffered(c) == sendClosed[c]
ClosedSeen(c) == sendClosed[c] /\ send[c] = <<>>

\* case message, ok := <-c.send  with !ok: the queue is closed and drained;
\* a close frame is written (its error ignored) and the loop returns.
WriteLoopQueueClosed(c) ==
  /\ ~crashed
  /\ wpc[c] = "loop"
  /\ ClosedSeen(c)
  /\ WriteLoopReturn(c)
  /\ wire' = [wire EXCEPT ![c] = FrameWritten(@, "writeLoop", "close")]
  /\ UNCHANGED <<distVars, pipeVars, connections, namespace, send, sendClosed,
                 peer, rpc, written, owed, crashed, timeVars>>

\* case <-ticker.C: the ping is written and the loop goes on.
WriteLoopPing(c) ==
  /\ ~crashed
  /\ wpc[c] = "loop"
  /\ ~WriteMustFail(c)
  /\ wire' = [wire EXCEPT ![c] = FrameWritten(@, "writeLoop", "ping")]
  /\ UNCHANGED <<distVars, pipeVars, connections, connVars, owed, crashed,
                 timeVars>>

\* case <-ticker.C: the ping fails and the loop returns.
WriteLoopPingFail(c) ==
  /\ ~crashed
  /\ wpc[c] = "loop"
  /\ WriteMayFail(c)
  /\ WriteLoopReturn(c)
  /\ UNCHANGED <<distVars, pipeVars, connections, namespace, send, sendClosed,
                 peer, rpc, written, owed, crashed>>
  /\ UNCHANGED <<wire, timeVars>>

\* ---------------------------------------------------------- specification
\* The system with its clock standing still: a peer that stops answering is
\* a peer that is gone (PeerFail).  TimedSpec below lets the clock move.
Next ==
  \/ \E h \in HeaderChoices : Produce(h)
  \/ DistributorReceive
  \/ \E k \in Pipelines : Handoff(k)
  \/ \E k \in Pipelines : PipelineBroadcastOther(k)
  \/ PipelineBroadcastV3
  \/ \E ns \in RequestNamespaces : Websocket(ns)
  \/ \E c \in Conns : PeerFail(c)
  \/ \E c \in Conns : ReadLoopFail(c)
  \/ \E c \in Conns : ReadLoopUnregister(c)
  \/ \E c \in Conns : ReadLoopClose(c)
  \/ \E c \in Conns : WriteLoopReceive(c)
  \/ \E c \in Conns : WriteLoopQueueClosed(c)
  \/ \E c \in Conns : WriteLoopPing(c)
  \/ \E c \in Conns : WriteLoopPingFail(c)

Spec == Init /\ [][Next]_vars

\* The same system in a narrower environment (events that match, that do not
\* match and that make fetchNamespace panic; one namespace), with the
\* fairness Go's scheduler gives: every goroutine that can take a step
\* eventually takes one.  Nothing is assumed of the environment: producing an
\* event, opening a connection and a peer going away are not fair.
FairHeaderChoices ==
  {[ok |-> FALSE, values |-> <<>>], [ok |-> TRUE, values |-> <<>>],
   [ok |-> TRUE, values |-> <<"{\"ms\":\"a\"}">>]}

FairNamespaces == {"", "a"}

FairNext ==
  \/ \E h \in FairHeaderChoices : Produce(h)
  \/ DistributorReceive
  \/ \E k \in Pipelines : Handoff(k)
  \/ \E k \in Pipelines : PipelineBroadcastOther(k)
  \/ PipelineBroadcastV3
  \/ \E ns \in FairNamespaces : Websocket(ns)
  \/ \E c \in Conns : PeerFail(c)
  \/ \E c \in Conns : ReadLoopFail(c)
  \/ \E c \in Conns : ReadLoopUnregister(c)
  \/ \E c \in Conns : ReadLoopClose(c)
  \/ \E c \in Conns : WriteLoopReceive(c)
  \/ \E c \in Conns : WriteLoopQueueClosed(c)
  \/ \E c \in Conns : WriteLoopPing(c)
  \/ \E c \in Conns : WriteLoopPingFail(c)

ConnFairness(c) ==
  /\ WF_vars(ReadLoopFail(c))
  /\ WF_vars(ReadLoopUnregister(c))
  /\ WF_vars(ReadLoopClose(c))
  /\ WF_vars(WriteLoopReceive(c) \/ WriteLoopQueueClosed(c) \/ WriteLoopPingFail(c))

FairSpec ==
  /\ Init /\ [][FairNext]_vars
  /\ WF_vars(DistributorReceive)
  /\ \A k \in Pipelines : WF_vars(Handoff(k)) /\ WF_vars(PipelineBroadcastOther(k))
  /\ WF_vars(PipelineBroadcastV3)
  /\ \A c \in Conns : ConnFairness(c)

\* The same connections on a clock, with no events: accepting, the peer
\* answering pings or not, and the two goroutines.  A goroutine that can leave
\* its loop or run its deferred statements does so before the clock moves:
\* scheduling delays are short against one tick.
TimedNamespaces == {"a"}

\* The pong handler: c.ws.SetReadDeadline(time.Now().Add(pongWait)).
Pong(c) ==
  /\ ~crashed
  /\ rpc[c] = "reading"
  /\ peer[c] = "ok" /\ ~wsClosed[c]
  /\ now > lastActivity[c]
  /\ readDeadline' = [readDeadline EXCEPT ![c] = ReadDeadline(now)]
  /\ lastActivity' = [lastActivity EXCEPT ![c] = now]
  /\ UNCHANGED <<distVars, pipeVars, connections, connVars, owed, crashed,
                 wire, now>>

\* A goroutine of c has a step to take that waits for nothing.
Pending(c) ==
  \/ rpc[c] = "reading" /\ ReadFails(c)
  \/ rpc[c] \in {"unreg", "close"}
  \/ wpc[c] = "loop" /\ ClosedSeen(c)

Tick ==
  /\ ~crashed
  /\ now + TickStep <= MaxTime
  /\ \A c \in Conns : ~Pending(c)
  /\ now' = now + TickStep
  /\ UNCHANGED <<distVars, pipeVars, connections, connVars, owed, crashed,
                 wire, readDeadline, lastActivity>>

TimedNext ==
  \/ \E ns \in TimedNamespaces : Websocket(ns)
  \/ \E c \in Conns : PeerFail(c)
  \/ \E c \in Conns : Pong(c)
  \/ Tick
  \/ \E c \in Conns : ReadLoopFail(c)
  \/ \E c \in Conns : ReadLoopUnregister(c)
  \/ \E c \in Conns : ReadLoopClose(c)
  \/ \E c \in Conns : WriteLoopQueueClosed(c)
  \/ \E c \in Conns : WriteLoopPing(c)
  \/ \E c \in Conns : WriteLoopPingFail(c)

TimedSpec == Init /\ [][TimedNext]_vars

\* ----------------------------------------------------------------- claims
Created(c) == rpc[c] # "none"
Ids(q) == {q[i].id : i \in 1..Len(q)}
IsPrefix(p, q) == Len(p) <= Len(q) /\ \A i \in 1..Len(p) : p[i] = q[i]
NoDuplicates(q) == \A i, j \in 1..Len(q) : q[i] = q[j] => i = j

\* C1: every event written to a connection's transport carries a routing
\* header whose derived namespace is the namespace the connection was bound
\* to; an event tagged for one namespace is never written to a connection
\* bound to another.
C1_WrittenOnlyOwnNamespace ==
  \A c \in Conns : \A i \in 1..Len(written[c]) :
    /\ ~FetchPanics(written[c][i])
    /\ fetchNamespace(written[c][i]) = namespace[c]

\* Two connections on different namespaces exist and one of them has been
\* written an event.
C1_Witness ==
  \E c, d \in Conns :
    /\ Created(c) /\ Created(d) /\ namespace[c] # namespace[d]
    /\ written[c] # <<>>

\* C2: a connection whose peer stays healthy is written every event tagged
\* with its namespace that is broadcast while it is registered.  Stated on
\* states, and only for the events the Hub put on the connection's queue (an
\* event dropped on a full queue is not held against the claim): such an
\* event has been written, or it is still in the queue with the delivery loop
\* running to write it.
C2_EveryOwnEventDelivered ==
  \A c \in Conns : \A id \in owed[c] :
    peer[c] = "ok" =>
      \/ id \in Ids(written[c])
      \/ id \in Ids(send[c]) /\ wpc[c] = "loop" /\ ~crashed

\* C3: when the delivery loop dequeues an event whose derived namespace is
\* not the connection's, it writes nothing, the loop ends and the transport
\* is closed.
C3_MismatchCloses ==
  [][\A c \in Conns :
       (/\ wpc[c] = "loop"
        /\ send[c] # <<>>
        /\ send'[c] = Tail(send[c])
        /\ ~FetchPanics(Head(send[c]))
        /\ fetchNamespace(Head(send[c])) # namespace[c])
       => (written'[c] = written[c] /\ wpc'[c] = "done" /\ wsClosed'[c])]_vars

\* One event that is tagged for neither namespace has ended the delivery
\* loops of a connection on "a" and a connection on "b", both with healthy
\* peers, and neither was written anything.
C3_Witness ==
  /\ produced = 1
  /\ \E c, d \in Conns :
       /\ namespace[c] = "a" /\ namespace[d] = "b"
       /\ \A e \in {c, d} :
            /\ wpc[e] = "done" /\ wsClosed[e] /\ peer[e] = "ok"
            /\ written[e] = <<>> /\ send[e] = <<>>

\* C4: an event is handed to v1, then v2, then v3; pipeline k accepts it only
\* when every earlier pipeline has it and no later one has, and the
\* Distributor takes the next upstream event only when all three have it.
C4_HandoffOrder ==
  [][/\ \A k \in Pipelines :
          received'[k] # received[k] =>
            /\ taken # <<>>
            /\ received'[k] = Append(received[k], taken[Len(taken)])
            /\ \A j \in Pipelines : j < k => received[j] = taken
            /\ \A j \in Pipelines : j > k => received[j] = received[k]
     /\ taken' # taken => \A k \in Pipelines : received[k] = taken]_vars

\* The second event has reached v1 and v2 and is being handed to v3.
C4_Witness ==
  /\ dpc = "v3"
  /\ Len(taken) = 2
  /\ received[1] = taken /\ received[2] = taken /\ received[3] = <<1>>

\* C5: each pipeline receives the events in the order the Distributor took
\* them from upstream: what it has received is a prefix of what was taken.
C5_PipelineOrder ==
  \A k \in Pipelines : IsPrefix(received[k], taken)

\* v2 has received two events in order while v1 is still busy with the
\* second one.
C5_Witness ==
  /\ Len(received[2]) >= 2
  /\ received[2] = taken
  /\ ppc[1] = "bcast"

\* C6: no pipeline receives an upstream event twice, and when the Distributor
\* is ready for the next upstream event every pipeline has received all the
\* events taken so far.
C6_ExactlyOnce ==
  /\ \A k \in Pipelines : NoDuplicates(received[k])
  /\ dpc = "recv" => \A k \in Pipelines : received[k] = taken

\* The Distributor is ready again after two events went to all pipelines.
C6_Witness ==
  /\ dpc = "recv"
  /\ Len(taken) >= 2
  /\ \A k \in Pipelines : received[k] = taken

\* C7: while the pipeline the Distributor is handing off to is not waiting on
\* its inbound queue, the Distributor stays where it is: no pipeline receives
\* anything and nothing is taken from upstream.
C7_StalledPipelineBlocks ==
  [][\A k \in Pipelines :
       (Stage(dpc) = k /\ ppc[k] # "recv")
       => (dpc' = dpc /\ dmsg' = dmsg /\ taken' = taken /\ received' = received)]_vars

\* The Distributor holds the second event for v1, which is still busy with
\* the first; v2 and v3 are idle and have only the first.
C7_Witness ==
  /\ dpc = "v1" /\ ppc[1] = "bcast"
  /\ Len(taken) = 2
  /\ ppc[2] = "recv" /\ ppc[3] = "recv"
  /\ received[2] = <<1>> /\ received[3] = <<1>>

\* The steps of the core that move an upstream event along.
CoreStep ==
  \/ DistributorReceive
  \/ \E k \in Pipelines : Handoff(k)
  \/ \E k \in Pipelines : PipelineBroadcastOther(k)
  \/ PipelineBroadcastV3

\* C8: an event offered on the upstream queue is always eventually accepted.
\* Stated on states: while an offer is pending the core can take a step that
\* brings the Distributor closer to accepting it.
C8_OfferNeverStuck ==
  offer # NoMsg => ENABLED CoreStep

\* C9: once one of a connection's two goroutines has ended, the other one
\* eventually ends too.  A goroutine has ended when it has returned or the
\* process has died.
ReadEnded(c)  == crashed \/ rpc[c] = "done"
WriteEnded(c) == crashed \/ wpc[c] = "done"

C9_BothLoopsEnd ==
  \A c \in Conns :
    (Created(c) /\ (ReadEnded(c) \/ WriteEnded(c)))
      ~> (ReadEnded(c) /\ WriteEnded(c))

\* The delivery loop ended on its own (the peer is healthy) and the read loop
\* has followed it.
C9_Witness ==
  \E c \in Conns :
    /\ ~crashed /\ peer[c] = "ok"
    /\ rpc[c] = "done" /\ wpc[c] = "done"

\* C10: a connection whose transport has been closed is not in the Hub
\* registry.
C10_ClosedImpliesUnregistered ==
  \A c \in Conns : wsClosed[c] => c \notin connections

\* C11: a connection that has started closing (either goroutine has left its
\* loop) eventually is out of the registry with both goroutines ended and its
\* transport closed; once closed it stays closed and nothing more is written
\* to it.  A dead process has no registry, goroutine or open transport left.
Closing(c) == Created(c) /\ (rpc[c] # "reading" \/ wpc[c] # "loop")
Closed(c) ==
  \/ crashed
  \/ /\ c \notin connections
     /\ rpc[c] = "done" /\ wpc[c] = "done"
     /\ wsClosed[c]

C11_ClosingReachesClosed ==
  /\ \A c \in Conns : Closing(c) ~> Closed(c)
  /\ [][\A c \in Conns :
          (Created(c) /\ Closed(c)) => (Closed(c)' /\ written'[c] = written[c])]_vars

\* A connection whose peer went away is closed while another one is still
\* registered and running.
C11_Witness ==
  \E c, d \in Conns :
    /\ ~crashed /\ Created(c) /\ Closed(c) /\ peer[c] = "gone"
    /\ d \in connections /\ rpc[d] = "reading" /\ wpc[d] = "loop"

\* C12: unregistering twice is the same as unregistering once, unregistering
\* a connection that is not registered changes nothing, no call panics, and
\* no other connection is touched.
C12_UnregisterIdempotent ==
  \A c \in Conns :
    LET once  == Unregister(connections, ClosedQueues, c)
        twice == Unregister(once.reg, once.closed, c)
    IN  /\ ~once.panic /\ ~twice.panic
        /\ twice.reg = once.reg /\ twice.closed = once.closed
        /\ c \notin once.reg
        /\ c \notin connections =>
             (once.reg = connections /\ once.closed = ClosedQueues)
        /\ \A d \in Conns \ {c} :
             /\ d \in once.reg <=> d \in connections
             /\ d \in once.closed <=> d \in ClosedQueues

\* One connection has been unregistered by the Hub while another one is
\* registered.
C12_Witness ==
  \E c, d \in Conns :
    /\ Created(c) /\ c \notin connections /\ sendClosed[c]
    /\ d \in connections

\* C13: a broadcast is never held up by a full queue, and when it happens a
\* registered connection with a full queue keeps its queue and its
\* registration while every other registered connection gets the event.
BroadcastStep == ppc[3] = "bcast" /\ ppc'[3] = "recv"
QueueFull(c) == Len(send[c]) >= QueueCap

C13_FullQueueDropsOnly ==
  /\ []((~crashed /\ ppc[3] = "bcast") => ENABLED PipelineBroadcastV3)
  /\ [][BroadcastStep =>
          /\ connections' = connections
          /\ \A c \in connections :
               IF QueueFull(c)
                 THEN send'[c] = send[c]
                 ELSE send'[c] = Append(send[c], pmsg[3])]_vars

\* After a broadcast, one registered connection still holds the older event
\* in its full queue, the other holds the event just broadcast.
C13_Witness ==
  \E c, d \in connections :
    /\ ppc[3] = "recv"
    /\ Len(send[c]) = QueueCap /\ Len(send[d]) >= 1
    /\ send[c][1].id < send[d][Len(send[d])].id

\* C14: a step in which one connection fails or closes (its goroutines, its
\* transport, its peer or its queue change state) leaves every other
\* connection as it was and the process alive; and while one connection is
\* closing or closed, a broadcast still reaches every other registered
\* connection that has room.
LifecycleStep(c) ==
  /\ Created(c)
  /\ \/ rpc'[c] # rpc[c] \/ wpc'[c] # wpc[c]
     \/ wsClosed'[c] # wsClosed[c] \/ peer'[c] # peer[c]
     \/ sendClosed'[c] # sendClosed[c]

Untouched(d) ==
  /\ (d \in connections') <=> (d \in connections)
  /\ namespace'[d] = namespace[d] /\ send'[d] = send[d]
  /\ sendClosed'[d] = sendClosed[d] /\ wsClosed'[d] = wsClosed[d]
  /\ peer'[d] = peer[d] /\ rpc'[d] = rpc[d] /\ wpc'[d] = wpc[d]
  /\ written'[d] = written[d]

C14_FailureIsolated ==
  /\ [][\A c \in Conns :
          LifecycleStep(c) =>
            /\ crashed' = crashed
            /\ UNCHANGED <<distVars, pipeVars>>
            /\ \A d \in Conns \ {c} : Untouched(d)]_vars
  /\ [][\A c \in Conns :
          (Closing(c) /\ BroadcastStep) =>
            \A d \in connections \ {c} :
              ~QueueFull(d) => send'[d] = Append(send[d], pmsg[3])]_vars

\* One connection has ended on a failure of its peer; the other is registered
\* and running with room in its queue, and a broadcast is about to happen.
C14_Witness ==
  \E c, d \in Conns :
    /\ ~crashed /\ peer[c] = "gone" /\ Closed(c)
    /\ d \in connections /\ rpc[d] = "reading" /\ wpc[d] = "loop"
    /\ ~wsClosed[d] /\ send[d] = <<>>
    /\ ppc[3] = "bcast"

\* C15: a subscribe request without a namespace changes nothing (the handler
\* answers 400 and returns), and no connection is ever bound to the empty
\* namespace.
C15_EmptyNamespaceRejected ==
  /\ [](\A c \in Conns : Created(c) => namespace[c] # "")
  /\ [][Websocket("") => UNCHANGED vars]_vars

\* A connection slot is free and a subscriber is registered: a request
\* without a namespace can arrive here and, had it been served, would have
\* taken the slot.
C15_Witness ==
  /\ ENABLED Websocket("")
  /\ \E c \in Conns : ~Created(c)
  /\ \E d \in connections : namespace[d] = "a"

\* C16: the ids written to a connection's transport, in order, form a
\* subsequence of the ids the Hub has broadcast, in order.
RECURSIVE IsSubseq(_, _)
IsSubseq(s, t) ==
  IF s = <<>> THEN TRUE
  ELSE IF t = <<>> THEN FALSE
  ELSE IF Head(s) = Head(t) THEN IsSubseq(Tail(s), Tail(t))
  ELSE IsSubseq(s, Tail(t))

\* Events apiv3's consumer has passed to Hub.Broadcast so far.
Broadcasts ==
  IF ppc[3] = "bcast"
    THEN SubSeq(received[3], 1, Len(received[3]) - 1)
    ELSE received[3]

WrittenIds(c) == [i \in 1..Len(written[c]) |-> written[c][i].id]

C18_FetchNeverCrashes == ~crashed

\* C17: a connection whose peer has not been heard of for pongWait plus one
\* ping period is closed and out of the registry.
Silent(c) == Created(c) /\ now > lastActivity[c] + pongWait + pingPeriod

C17_SilentPeerClosed ==
  \A c \in Conns : Silent(c) => (Closed(c) /\ c \notin connections)

\* A connection whose peer is still there, and answered at least once, has
\* been silent for longer than pongWait plus a ping period.
C17_Witness ==
  \E c \in Conns :
    /\ Silent(c) /\ peer[c] = "ok" /\ lastActivity[c] > 0
    /\ rpc[c] = "done" /\ wpc[c] = "done"

\* C19: every frame on a connection's transport is written by that
\* connection's writeLoop: no frame is ever written by another goroutine,
\* and a step that writes a frame is a step of the running writeLoop in which
\* readLoop, the Hub's registry, the pipelines and the Distributor stand
\* still.
Writes(c) == wire'[c] # wire[c] \/ written'[c] # written[c]

====
